---- MODULE Spec2Model ----
(***************************************************************************)
(* gover: the Go version scraper.  main resolves the latest Go version,    *)
(* enumerates go1.1 .. go1.N, scrapes the release-history page into a      *)
(* version -> date index, fans out one asynchronous page fetch per version *)
(* (colly collector, Parallelism 2), joins on a sync.WaitGroup, sorts the  *)
(* accumulated records descending by minor and writes them to a file.      *)
(*                                                                         *)
(* Strings the program parses (version identifiers, URLs, heading texts,   *)
(* the VERSION body) are sequences of one-character strings; texts the     *)
(* program only copies (h1/h2/p texts of a documentation page) are opaque  *)
(* TLA+ strings.                                                           *)
(***************************************************************************)
EXTENDS Integers, Sequences, FiniteSets, TLC

VARIABLES
    pc,              \* position of main / of the function it is executing
    latestVersion,   \* main: latestVersion, empty until it is assigned
    majorVersion,    \* main: majorVersion, -1 until it is assigned
    versions,        \* main: versions, empty until it is generated
    historyPage,     \* the h2 texts of go.dev/doc/devel/release, in document order
    headings,        \* ScrapeReleaseHistory: h2 elements colly has still to hand to OnHTML
    histState,       \* ScrapeReleaseHistory: "idle", "visiting" or "returned"
    histReturn,      \* what ScrapeReleaseHistory returned: the map, whether it is nil, the error
    site,            \* the documentation pages go.dev may answer a page request with
    releaseDates,    \* ScrapeReleaseHistory: releaseDates map (a function on its keys)
    tasks,           \* ScrapeGoVersions: one record per dispatched Visit
    visited,         \* ScrapeGoVersions: URLs the collector has already accepted
    wg,              \* ScrapeGoVersions: the sync.WaitGroup counter
    mu,              \* ScrapeGoVersions: 0 when the mutex is free, else the holder's index
    allVersionData,  \* ScrapeGoVersions: the shared result slice
    accumulated,     \* the slice as it was when wg.Wait returned (empty before)
    result,          \* value returned by ScrapeGoVersions (empty before it returns)
    scrapeErr,       \* error returned by ScrapeGoVersions ("unset" before it returns)
    outputFile,      \* "absent" or "written"
    exit             \* "running", "ok", or the step whose fatal error ended the run

vars == <<pc, latestVersion, majorVersion, versions, historyPage, headings,
          histState, histReturn, site, releaseDates, tasks, visited, wg, mu, allVersionData,
          accumulated, result, scrapeErr, outputFile, exit>>

(***************************************************************************)
(* Bounds of the model.                                                    *)
(***************************************************************************)
\* largest minor number the VERSION endpoint reports in the pipeline
MaxMinor == 3
\* most h2 headings on a release-history page handed to ScrapeReleaseHistory
MaxHeadings == 3
\* most records in a collection handed to the sort
MaxLen == 3
\* most h2 elements on a documentation page handed to the page callback
MaxH2 == 2
\* largest minor number in a version string handed to extractMajorVersion
MaxGen == 24

(***************************************************************************)
(* Characters, strconv.Atoi and the %d verb.                               *)
(***************************************************************************)
Digits == <<"0", "1", "2", "3", "4", "5", "6", "7", "8", "9">>

IsDigit(c) == \E i \in 1..10 : Digits[i] = c

DigitVal(c) == (CHOOSE i \in 1..10 : Digits[i] = c) - 1

\* \s of the regexp package: [\t\n\f\r ]
IsSpace(c) == c \in {" ", "\t", "\n", "\f", "\r"}

RECURSIVE DigitsVal(_)
DigitsVal(s) ==
    IF s = <<>> THEN 0
    ELSE 10 * DigitsVal(SubSeq(s, 1, Len(s) - 1)) + DigitVal(s[Len(s)])

\* s without its leading zeros
RECURSIVE StripZeros(_)
StripZeros(s) ==
    IF s # <<>> /\ s[1] = "0" THEN StripZeros(Tail(s)) ELSE s

\* a <= b for digit strings of the same length
RECURSIVE DigitsLE(_, _)
DigitsLE(a, b) ==
    IF a = <<>> THEN TRUE
    ELSE IF a[1] # b[1] THEN DigitVal(a[1]) < DigitVal(b[1])
    ELSE DigitsLE(Tail(a), Tail(b))

\* the digits of the largest int, 1<<63 - 1 (int is 64 bits wide)
MaxIntDigits ==
    <<"9", "2", "2", "3", "3", "7", "2", "0", "3", "6",
      "8", "5", "4", "7", "7", "5", "8", "0", "7">>

\* the digits of the magnitude of the smallest int, 1<<63
MinIntDigits == SubSeq(MaxIntDigits, 1, Len(MaxIntDigits) - 1) \o <<"8">>

\* the number the digits denote, negated or not, is an int
InIntRange(body, negative) ==
    LET d == StripZeros(body)
        limit == IF negative THEN MinIntDigits ELSE MaxIntDigits
    IN  \/ Len(d) < Len(limit)
        \/ Len(d) = Len(limit) /\ DigitsLE(d, limit)

\* strconv.Atoi: an optional sign followed by one or more decimal digits that
\* denote an int; anything else, a number out of range included, is an error
Atoi(s) ==
    LET signed == s # <<>> /\ s[1] \in {"+", "-"}
        body   == IF signed THEN Tail(s) ELSE s
    IN  IF \/ body = <<>>
           \/ \E i \in 1..Len(body) : ~IsDigit(body[i])
           \/ ~InIntRange(body, signed /\ s[1] = "-")
        THEN [ok |-> FALSE, val |-> 0]
        ELSE [ok |-> TRUE,
              val |-> IF signed /\ s[1] = "-" THEN 0 - DigitsVal(body)
                      ELSE DigitsVal(body)]

\* fmt's %d of a non-negative int
RECURSIVE Itoa(_)
Itoa(n) ==
    IF n < 10 THEN <<Digits[n + 1]>>
    ELSE Itoa(n \div 10) \o <<Digits[(n % 10) + 1]>>

HasPrefix(s, p) == Len(s) >= Len(p) /\ SubSeq(s, 1, Len(p)) = p

\* number of leading characters of s from position i on that satisfy a digit test
RECURSIVE DigitRun(_, _)
DigitRun(s, i) ==
    IF i <= Len(s) /\ IsDigit(s[i]) THEN 1 + DigitRun(s, i + 1) ELSE 0

RECURSIVE SpaceRun(_, _)
SpaceRun(s, i) ==
    IF i <= Len(s) /\ IsSpace(s[i]) THEN 1 + SpaceRun(s, i + 1) ELSE 0

\* s[i .. i+Len(p)-1] = p
MatchesAt(s, i, p) ==
    i >= 1 /\ i + Len(p) - 1 <= Len(s) /\ SubSeq(s, i, i + Len(p) - 1) = p

Go1Dot == <<"g", "o", "1", ".">>

(***************************************************************************)
(* main.go: version resolution.                                            *)
(***************************************************************************)
\* strings.SplitN(body, "\n", 2)[0]
RECURSIVE FirstLine(_)
FirstLine(body) ==
    IF body = <<>> \/ body[1] = "\n" THEN <<>>
    ELSE <<body[1]>> \o FirstLine(Tail(body))

\* strings.TrimSpace
RECURSIVE TrimSpace(_)
TrimSpace(s) ==
    IF s = <<>> THEN s
    ELSE IF IsSpace(s[1]) THEN TrimSpace(Tail(s))
    ELSE IF IsSpace(s[Len(s)]) THEN TrimSpace(SubSeq(s, 1, Len(s) - 1))
    ELSE s

\* regexp go1\.(\d+): the leftmost position where "go1." is followed by a digit
MajorMatchPositions(s) ==
    {i \in 1..Len(s) : MatchesAt(s, i, Go1Dot) /\ DigitRun(s, i + 4) >= 1}

\* a regexp that is satisfied with the last occurrence of the pattern
extractMajorVersion_LastMatch(versionString) ==
    LET pos == MajorMatchPositions(versionString)
    IN  IF pos = {} THEN [ok |-> FALSE, val |-> 0]
        ELSE LET i == CHOOSE p \in pos : \A q \in pos : p >= q
                 group == SubSeq(versionString, i + 4,
                                 i + 3 + DigitRun(versionString, i + 4))
             IN  Atoi(group)

\* extractMajorVersion: [ok, val]; ok = FALSE stands for the returned error
extractMajorVersion(versionString) ==
    LET pos == MajorMatchPositions(versionString)
    IN  IF pos = {} THEN [ok |-> FALSE, val |-> 0]
        ELSE LET i == CHOOSE p \in pos : \A q \in pos : p <= q
                 group == SubSeq(versionString, i + 4,
                                 i + 3 + DigitRun(versionString, i + 4))
             IN  Atoi(group)

\* fmt.Sprintf("go1.%d", i)
VersionString(i) == Go1Dot \o Itoa(i)

\* a loop that counts from 0 to majorVersion - 1
generateVersionStrings_FromZero(n) == [i \in 1..n |-> VersionString(i - 1)]

\* generateVersionStrings: go1.1 .. go1.<majorVersion>, empty when majorVersion < 1
generateVersionStrings(n) == [i \in 1..n |-> VersionString(i)]

\* bodies the VERSION endpoint may answer with: "go1.<n>.0\ntime ..." and a
\* body that holds no version
VersionBody(n) == VersionString(n) \o <<".", "0", "\n", "t", "i", "m", "e">>

Garbage == <<"g", "a", "r", "b", "a", "g", "e">>

Bodies == {VersionBody(n) : n \in 0..MaxMinor} \cup {Garbage}

\* getLatestGoVersion followed by main's check of its error: http.Get fails,
\* the status is not 200 or the body cannot be read (each fatal), or the
\* trimmed first line of the body is returned
GetLatestGoVersion ==
    /\ pc = "getLatest"
    /\ \/ /\ pc' = "exit"
          /\ exit' = "fatal_resolve"
          /\ UNCHANGED latestVersion
       \/ \E body \in Bodies :
             /\ latestVersion' = TrimSpace(FirstLine(body))
             /\ pc' = "extract"
             /\ UNCHANGED exit
    /\ UNCHANGED <<majorVersion, versions, historyPage, headings, histState, histReturn, site,
                   releaseDates, tasks, visited, wg, mu, allVersionData,
                   accumulated, result, scrapeErr, outputFile>>

\* where main goes after extractMajorVersion returned r
AfterExtract(r) == IF r.ok THEN "generate" ELSE "exit"

\* main: majorVersion, err := extractMajorVersion(latestVersion)
ExtractMajorVersion ==
    /\ pc = "extract"
    /\ LET r == extractMajorVersion(latestVersion)
       IN  /\ pc' = AfterExtract(r)
           /\ majorVersion' = IF r.ok THEN r.val ELSE majorVersion
           /\ exit' = IF r.ok THEN exit ELSE "fatal_parse"
    /\ UNCHANGED <<latestVersion, versions, historyPage, headings, histState, histReturn, site,
                   releaseDates, tasks, visited, wg, mu, allVersionData,
                   accumulated, result, scrapeErr, outputFile>>

\* main: versions := generateVersionStrings(majorVersion)
GenerateVersionStrings ==
    /\ pc = "generate"
    /\ versions' = generateVersionStrings(majorVersion)
    /\ pc' = "history"
    /\ UNCHANGED <<latestVersion, majorVersion, historyPage, headings, histState, histReturn, site,
                   releaseDates, tasks, visited, wg, mu, allVersionData,
                   accumulated, result, scrapeErr, outputFile, exit>>

(***************************************************************************)
(* ScrapeReleaseHistory.                                                   *)
(***************************************************************************)
Released == <<"(", "r", "e", "l", "e", "a", "s", "e", "d">>

\* \d{4}-\d{2}-\d{2} at position m
IsDateAt(s, m) ==
    /\ m + 9 <= Len(s)
    /\ \A k \in {0, 1, 2, 3, 5, 6, 8, 9} : IsDigit(s[m + k])
    /\ s[m + 4] = "-"
    /\ s[m + 7] = "-"

NoMatch == [ok |-> FALSE, j |-> 0, m |-> 0]

\* versionDateRe after its literal "go1.", read as the automaton it denotes:
\*   (go1\.\d+)(?:\.\d+)?\s+\(released\s+(\d{4}-\d{2}-\d{2})\)
\* Every quantifier is followed by a character it cannot match itself, so the
\* greedy match is the only one the backtracking search can find.  p is the
\* position read, st the part of the pattern it is in, j the position after
\* the first group; the result is j and the position m of the date.
RECURSIVE ScanHeading(_, _, _, _)
ScanHeading(s, p, st, j) ==
    LET c == IF p <= Len(s) THEN s[p] ELSE ""
    IN  CASE st = "minor0" ->
               IF IsDigit(c) THEN ScanHeading(s, p + 1, "minor", j) ELSE NoMatch
          [] st = "minor" ->
               IF IsDigit(c) THEN ScanHeading(s, p + 1, "minor", j)
               ELSE IF c = "." THEN ScanHeading(s, p + 1, "patch0", p)
               ELSE IF IsSpace(c) THEN ScanHeading(s, p + 1, "space1", p)
               ELSE NoMatch
          [] st = "patch0" ->
               IF IsDigit(c) THEN ScanHeading(s, p + 1, "patch", j) ELSE NoMatch
          [] st = "patch" ->
               IF IsDigit(c) THEN ScanHeading(s, p + 1, "patch", j)
               ELSE IF IsSpace(c) THEN ScanHeading(s, p + 1, "space1", j)
               ELSE NoMatch
          [] st = "space1" ->
               IF IsSpace(c) THEN ScanHeading(s, p + 1, "space1", j)
               ELSE IF MatchesAt(s, p, Released) /\ p + 9 <= Len(s) /\ IsSpace(s[p + 9])
                    THEN ScanHeading(s, p + 10, "space2", j)
               ELSE NoMatch
          [] st = "space2" ->
               IF IsSpace(c) THEN ScanHeading(s, p + 1, "space2", j)
               ELSE IF IsDateAt(s, p) /\ p + 10 <= Len(s) /\ s[p + 10] = ")"
                    THEN [ok |-> TRUE, j |-> j, m |-> p]
               ELSE NoMatch

\* versionDateRe anchored at position i: whether it matches, the first group
\* (the version without its patch suffix) and the second (the date)
HeadingMatchAt(s, i) ==
    IF ~MatchesAt(s, i, Go1Dot) THEN [ok |-> FALSE, version |-> <<>>, date |-> <<>>]
    ELSE LET r == ScanHeading(s, i + 4, "minor0", 0)
         IN  IF r.ok
             THEN [ok |-> TRUE,
                   version |-> SubSeq(s, i, r.j - 1),
                   date |-> SubSeq(s, r.m, r.m + 9)]
             ELSE [ok |-> FALSE, version |-> <<>>, date |-> <<>>]

\* versionDateRe.FindStringSubmatch(text): the leftmost match, or no match
FindStringSubmatch(text) ==
    LET pos == {i \in 1..Len(text) : HeadingMatchAt(text, i).ok}
    IN  IF pos = {} THEN [ok |-> FALSE, version |-> <<>>, date |-> <<>>]
        ELSE HeadingMatchAt(text, CHOOSE p \in pos : \A q \in pos : p <= q)

EmptyMap == [k \in {} |-> <<>>]

\* ScrapeReleaseHistory has not returned
NotReturned == [dates |-> EmptyMap, isNil |-> TRUE, err |-> "unset"]

\* the store without the exists check: the last heading wins
StoreRelease_Overwrite(m, version, releaseDate) ==
    [k \in DOMAIN m \cup {version} |->
        IF k = version THEN releaseDate ELSE m[k]]

\* if _, exists := releaseDates[version]; !exists { releaseDates[version] = releaseDate }
StoreRelease(m, version, releaseDate) ==
    IF version \in DOMAIN m THEN m
    ELSE [k \in DOMAIN m \cup {version} |->
             IF k = version THEN releaseDate ELSE m[k]]

\* the OnHTML("h2") callback body applied to one heading text
OnH2(m, text) ==
    LET matches == FindStringSubmatch(text)
    IN  IF matches.ok THEN StoreRelease(m, matches.version, matches.date) ELSE m

\* an asynchronous collector nobody waits for: the function goes on while the
\* h2 elements are still to be handled
AfterVisit_NoWait == "scrape"

\* where ScrapeReleaseHistory is after c.Visit returned nil: the collector is
\* synchronous, so the h2 callbacks run before anything else does
AfterVisit == "headings"

\* c.Visit(release page): the synchronous collector either fails the request
\* (Visit returns the error, ScrapeReleaseHistory returns nil, err and main
\* exits) or parses the page and starts handing its h2 elements to the callback
HistoryVisit ==
    /\ pc = "history"
    /\ releaseDates' = EmptyMap
    /\ \/ /\ headings' = historyPage
          /\ histState' = "visiting"
          /\ pc' = AfterVisit
          /\ UNCHANGED <<exit, histReturn>>
       \/ /\ headings' = <<>>
          /\ histState' = "returned"
          /\ histReturn' = [dates |-> EmptyMap, isNil |-> TRUE, err |-> "visit"]
          /\ pc' = "exit"
          /\ exit' = "fatal_history"
    /\ UNCHANGED <<latestVersion, majorVersion, versions, historyPage, tasks,
                   visited, wg, mu, allVersionData, accumulated, result,
                   scrapeErr, outputFile, site>>

\* colly calls the OnHTML("h2") callback on the next h2 of the page
OnHeading ==
    /\ pc = "headings"
    /\ headings # <<>>
    /\ releaseDates' = OnH2(releaseDates, Head(headings))
    /\ headings' = Tail(headings)
    /\ UNCHANGED <<pc, latestVersion, majorVersion, versions, historyPage,
                   histState, histReturn, site, tasks, visited, wg, mu, allVersionData,
                   accumulated, result, scrapeErr, outputFile, exit>>

\* main going on after ScrapeReleaseHistory returned an error
AfterHistory_IgnoreError(m) == "scrape"

\* where main goes after ScrapeReleaseHistory returned: an empty map comes
\* back as an error, which main makes fatal
AfterHistory(m) == IF DOMAIN m = {} THEN "exit" ELSE "scrape"

\* an empty map handed back as if it were a result
HistoryResult_AllowEmpty(m) == [dates |-> m, isNil |-> FALSE, err |-> "nil"]

\* what ScrapeReleaseHistory returns once the page was handled: nil and an
\* error when no release date was found, else the map and a nil error
HistoryResult(m) ==
    IF DOMAIN m = {} THEN [dates |-> EmptyMap, isNil |-> TRUE, err |-> "notfound"]
    ELSE [dates |-> m, isNil |-> FALSE, err |-> "nil"]

\* c.Wait() returns (every h2 was handled), ScrapeReleaseHistory returns and
\* main checks the error
HistoryReturn ==
    /\ pc = "headings"
    /\ headings = <<>>
    /\ histState' = "returned"
    /\ histReturn' = HistoryResult(releaseDates)
    /\ pc' = AfterHistory(releaseDates)
    /\ exit' = IF DOMAIN releaseDates = {} THEN "fatal_history" ELSE exit
    /\ UNCHANGED <<latestVersion, majorVersion, versions, historyPage, headings,
                   releaseDates, tasks, visited, wg, mu, allVersionData,
                   accumulated, result, scrapeErr, outputFile, site>>

(***************************************************************************)
(* ScrapeGoVersions: helpers.                                              *)
(***************************************************************************)
\* LimitRule.Parallelism
Parallelism == 2

DocPrefix == <<"h", "t", "t", "p", "s", ":", "/", "/", "g", "o", ".", "d", "e",
               "v", "/", "d", "o", "c", "/">>

\* a URL built with a slash after the version
DocURL_TrailingSlash(v) == DocPrefix \o v \o <<"/">>

\* fmt.Sprintf("https://go.dev/doc/%s", v)
DocURL(v) == DocPrefix \o v

\* extractVersionFromURL cutting the segment one character early, so that it
\* keeps the slash
extractVersionFromURL_KeepSlash(url) ==
    IF Len(url) < 4 \/ url[Len(url)] = "/" THEN <<>>
    ELSE LET slashes == {i \in 1..Len(url) : url[i] = "/"}
         IN  IF slashes = {} THEN <<>>
             ELSE SubSeq(url, CHOOSE i \in slashes : \A j \in slashes : j <= i,
                         Len(url))

\* extractVersionFromURL: the segment after the last slash when it is at least
\* three characters long and starts with "go", else the empty string
extractVersionFromURL(url) ==
    IF Len(url) < 4 \/ url[Len(url)] = "/" THEN <<>>
    ELSE LET slashes == {i \in 1..Len(url) : url[i] = "/"}
             \* Go's lastSlash is zero-based and stays 0 when there is no slash
             lastSlash == IF slashes = {} THEN 0
                          ELSE (CHOOSE i \in slashes : \A j \in slashes : j <= i) - 1
             segment == SubSeq(url, lastSlash + 2, Len(url))
         IN  IF /\ lastSlash # 0
                /\ lastSlash < Len(url) - 1
                /\ Len(segment) >= 3
                /\ SubSeq(segment, 1, 2) = <<"g", "o">>
             THEN segment
             ELSE <<>>

\* parseVersionMinor reading only the first digit after "go1.", which orders
\* the identifiers as a string comparison does
parseVersionMinor_FirstDigit(version) ==
    IF ~HasPrefix(version, Go1Dot) \/ Len(version) < 5 \/ ~IsDigit(version[5])
    THEN 0
    ELSE DigitVal(version[5])

\* parseVersionMinor: the number after "go1.", 0 when the string does not parse
parseVersionMinor(version) ==
    IF ~HasPrefix(version, Go1Dot) THEN 0
    ELSE LET r == Atoi(SubSeq(version, 5, Len(version)))
         IN  IF r.ok THEN r.val ELSE 0

\* the longest slice pdqsortCmpFunc sorts by insertion
InsertionSortMax == 12

\* cmp.Compare on ints
Compare(x, y) == IF x < y THEN -1 ELSE IF x > y THEN 1 ELSE 0

\* the comparison handed to slices.SortFunc
VersionCmp(a, b) ==
    0 - Compare(parseVersionMinor(a.Version), parseVersionMinor(b.Version))

\* the orderings of s: s composed with a bijection on its indices
Orderings(s) ==
    {[i \in 1..Len(s) |-> s[f[i]]] :
        f \in {g \in [1..Len(s) -> 1..Len(s)] :
                  \A i, j \in 1..Len(s) : g[i] = g[j] => i = j}}

\* the sort left out
SortFunc_Unsorted(s) == {s}

\* the place insertionSortCmpFunc leaves s[i] at: an element moves left only
\* past elements it compares less than, so it ends after every element that
\* compares less than it and after the earlier ones that compare equal
InsertionPlace(s, i) ==
    1 + Cardinality({j \in 1..Len(s) :
                        \/ VersionCmp(s[j], s[i]) < 0
                        \/ VersionCmp(s[j], s[i]) = 0 /\ j < i})

\* insertionSortCmpFunc
InsertionSort(s) ==
    [k \in 1..Len(s) |-> s[CHOOSE i \in 1..Len(s) : InsertionPlace(s, i) = k]]

\* s without its i-th element
RemoveAt(s, i) == SubSeq(s, 1, i - 1) \o SubSeq(s, i + 1, Len(s))

\* every reordering of s in which no element compares greater than a later
\* one: any element that no other one precedes may come first
RECURSIVE SortedOrderings(_)
SortedOrderings(s) ==
    IF s = <<>> THEN {<<>>}
    ELSE UNION {{<<s[i]>> \o t : t \in SortedOrderings(RemoveAt(s, i))} :
                   i \in {k \in 1..Len(s) :
                             \A j \in 1..Len(s) : VersionCmp(s[k], s[j]) <= 0}}

\* a sort that loses the last record
SortFunc_DropsLast(s) == {SubSeq(InsertionSort(s), 1, Len(s) - 1)}

\* a routine that turns the slice around instead of sorting it
SortFunc_Reversing(s) == {[k \in 1..Len(s) |-> s[Len(s) + 1 - k]]}

\* slices.SortFunc(allVersionData, VersionCmp): the slice is reordered so that
\* no element compares greater than a later one. The sort is documented as not
\* stable: pdqsortCmpFunc sorts a slice of at most InsertionSortMax elements by
\* insertion, which keeps equal elements in order, and partitions a longer one
\* around pivots, after which elements that compare equal may end in either
\* order
SortFunc(s) ==
    IF Len(s) <= InsertionSortMax THEN {InsertionSort(s)}
    ELSE SortedOrderings(s)

\* documentation pages the site may serve: h1 is e.ChildText("h1"), h2s the h2
\* elements in document order, each with its text, the tag of its next
\* sibling ("" when it has none) and that sibling's text
Pages ==
    {[h1 |-> "Release Notes",
      h2s |-> <<[text |-> "Introduction", next |-> "p", nextText |-> "The latest release."],
                [text |-> "Tools", next |-> "h3", nextText |-> "Go command"]>>],
     [h1 |-> "", h2s |-> <<>>]}

\* a callback that takes the text of whatever element follows the h2
H2Category_AnySibling(h) == [Category |-> h.text, Description |-> h.nextText]

\* the e.ForEach("h2", ...) callback: one ChangeCategory per h2
H2Category(h) ==
    [Category |-> h.text,
     Description |-> IF h.next = "p" THEN h.nextText ELSE ""]

\* a callback that never looks the version up in the index
MergeDate_NoMerge(version, dates) == <<>>

\* versionData.ReleaseDate: the zero value, replaced by dates[version] if the
\* version is a key of the index
MergeDate(version, dates) ==
    IF version \in DOMAIN dates THEN dates[version] ELSE <<>>

\* an Overview entry appended whatever the h1 text is
Overview_Always(page) == <<[Category |-> "Overview", Description |-> page.h1]>>

\* the entries the h1 adds: e.ChildText("h1") is "" when the page has no h1 or
\* an empty one, and then nothing is appended
Overview(page) ==
    IF page.h1 # ""
    THEN <<[Category |-> "Overview", Description |-> page.h1]>>
    ELSE <<>>

\* the VersionData the OnHTML("html") callback builds for one page
BuildVersionData(version, page, dates) ==
    [Version |-> version,
     ReleaseDate |-> MergeDate(version, dates),
     Changes |-> Overview(page)
                 \o [k \in 1..Len(page.h2s) |-> H2Category(page.h2s[k])]]

\* requests that hold one of the limit rule's slots
InFlight == {i \in 1..Len(tasks) : tasks[i].st = "inflight"}

\* a collector without the limit rule
SlotFree_NoLimit == TRUE

\* the limit rule lets a request start while fewer than Parallelism are running
SlotFree == Cardinality(InFlight) < Parallelism

\* a lock that excludes nobody
MuFree_NoExclusion == TRUE

\* mu.Lock() may be taken
MuFree == mu = 0

\* wg.Wait() that does not wait for the counter to reach zero
WaitMayReturn_NoBarrier == TRUE

\* wg.Wait() may return
WaitMayReturn == wg = 0

\* no response yet
NoPage == [h1 |-> "", h2s |-> <<>>]

\* the zero VersionData
NoData == [Version |-> <<>>, ReleaseDate |-> <<>>, Changes |-> <<>>]

\* a dispatched Visit: its state, the version and URL it is for, and the
\* page it was answered with and the callback's locals (versionData, the
\* slice append read)
NewTask(v, url, st) ==
    [st |-> st, v |-> v, url |-> url, page |-> NoPage, vd |-> NoData, old |-> <<>>]

(***************************************************************************)
(* ScrapeGoVersions: the dispatch loop, the requests and the callbacks.    *)
(***************************************************************************)
\* one iteration of `for _, v := range versions`: wg.Add(1), c.Visit(url).
\* Visit refuses a URL the collector has already accepted (returning an error
\* the loop ignores) and otherwise starts the request in its own goroutine.
Dispatch ==
    /\ pc = "scrape"
    /\ Len(tasks) < Len(versions)
    /\ LET v   == versions[Len(tasks) + 1]
           url == DocURL(v)
       IN  /\ wg' = wg + 1
           /\ tasks' = Append(tasks,
                  NewTask(v, url, IF url \in visited THEN "rejected" ELSE "queued"))
           /\ visited' = visited \cup {url}
    /\ UNCHANGED <<pc, latestVersion, majorVersion, versions, historyPage,
                   headings, histState, histReturn, site, releaseDates, mu, allVersionData,
                   accumulated, result, scrapeErr, outputFile, exit>>

\* the range loop ends and main's goroutine reaches wg.Wait()
LoopExit ==
    /\ pc = "scrape"
    /\ Len(tasks) = Len(versions)
    /\ pc' = "wait"
    /\ UNCHANGED <<latestVersion, majorVersion, versions, historyPage, headings,
                   histState, histReturn, site, releaseDates, tasks, visited, wg, mu,
                   allVersionData, accumulated, result, scrapeErr, outputFile,
                   exit>>

\* a queued request gets a slot of the limit rule and goes on the wire
StartFetch(i) ==
    /\ tasks[i].st = "queued"
    /\ SlotFree
    /\ tasks' = [tasks EXCEPT ![i].st = "inflight"]
    /\ UNCHANGED <<pc, latestVersion, majorVersion, versions, historyPage,
                   headings, histState, histReturn, site, releaseDates, visited, wg, mu,
                   allVersionData, accumulated, result, scrapeErr, outputFile,
                   exit>>

\* the request fails (transport error or error status): the slot is released
\* and the OnError callback logs it
FetchFail(i) ==
    /\ tasks[i].st = "inflight"
    /\ tasks' = [tasks EXCEPT ![i].st = "failed"]
    /\ UNCHANGED <<pc, latestVersion, majorVersion, versions, historyPage,
                   headings, histState, histReturn, site, releaseDates, visited, wg, mu,
                   allVersionData, accumulated, result, scrapeErr, outputFile,
                   exit>>

\* the task after the OnHTML("html") callback ran on `page` up to mu.Lock():
\* it returned early when no version could be extracted from the URL,
\* otherwise it holds the VersionData it built
CallbackStart(t, page, dates) ==
    LET version == extractVersionFromURL(t.url)
    IN  IF version = <<>> THEN [t EXCEPT !.st = "skipped", !.page = page]
        ELSE [t EXCEPT !.st = "lockwait",
                       !.page = page,
                       !.vd = BuildVersionData(version, page, dates)]

\* the response arrives: the slot is released and the OnHTML("html") callback
\* runs on the page up to mu.Lock()
FetchOK(i) ==
    /\ tasks[i].st = "inflight"
    /\ \E page \in site :
          tasks' = [tasks EXCEPT ![i] = CallbackStart(tasks[i], page, releaseDates)]
    /\ UNCHANGED <<pc, latestVersion, majorVersion, versions, historyPage,
                   headings, histState, histReturn, site, releaseDates, visited, wg, mu,
                   allVersionData, accumulated, result, scrapeErr, outputFile,
                   exit>>

\* mu.Lock() and the read of the slice that append starts with
Lock(i) ==
    /\ tasks[i].st = "lockwait"
    /\ MuFree
    /\ mu' = i
    /\ tasks' = [tasks EXCEPT ![i].st = "locked", ![i].old = allVersionData]
    /\ UNCHANGED <<pc, latestVersion, majorVersion, versions, historyPage,
                   headings, histState, histReturn, site, releaseDates, visited, wg,
                   allVersionData, accumulated, result, scrapeErr, outputFile,
                   exit>>

\* allVersionData = append(<the slice read>, versionData)
AppendData(i) ==
    /\ tasks[i].st = "locked"
    /\ allVersionData' = Append(tasks[i].old, tasks[i].vd)
    /\ tasks' = [tasks EXCEPT ![i].st = "appended"]
    /\ UNCHANGED <<pc, latestVersion, majorVersion, versions, historyPage,
                   headings, histState, histReturn, site, releaseDates, visited, wg, mu,
                   accumulated, result, scrapeErr, outputFile, exit>>

\* mu.Unlock()
Unlock(i) ==
    /\ tasks[i].st = "appended"
    /\ mu' = 0
    /\ tasks' = [tasks EXCEPT ![i].st = "unlocked"]
    /\ UNCHANGED <<pc, latestVersion, majorVersion, versions, historyPage,
                   headings, histState, histReturn, site, releaseDates, visited, wg,
                   allVersionData, accumulated, result, scrapeErr, outputFile,
                   exit>>

\* wg.Done(), the callback's last statement
Done(i) ==
    /\ tasks[i].st = "unlocked"
    /\ wg' = wg - 1
    /\ tasks' = [tasks EXCEPT ![i].st = "done"]
    /\ UNCHANGED <<pc, latestVersion, majorVersion, versions, historyPage,
                   headings, histState, histReturn, site, releaseDates, visited, mu,
                   allVersionData, accumulated, result, scrapeErr, outputFile,
                   exit>>

\* wg.Wait() returns
Wait ==
    /\ pc = "wait"
    /\ WaitMayReturn
    /\ pc' = "sort"
    /\ accumulated' = allVersionData
    /\ UNCHANGED <<latestVersion, majorVersion, versions, historyPage, headings,
                   histState, histReturn, site, releaseDates, tasks, visited, wg, mu,
                   allVersionData, result, scrapeErr, outputFile, exit>>

\* slices.SortFunc sorts the slice in place and ScrapeGoVersions returns it
\* with a nil error
SortAndReturn ==
    /\ pc = "sort"
    /\ \E sorted \in SortFunc(allVersionData) :
          /\ allVersionData' = sorted
          /\ result' = sorted
    /\ scrapeErr' = "nil"
    /\ pc' = "write"
    /\ UNCHANGED <<latestVersion, majorVersion, versions, historyPage, headings,
                   histState, histReturn, site, releaseDates, tasks, visited, wg, mu, accumulated,
                   outputFile, exit>>

\* main: json.MarshalIndent and os.WriteFile; a write error is fatal
WriteOutput ==
    /\ pc = "write"
    /\ pc' = "exit"
    /\ \/ /\ outputFile' = "written"
          /\ exit' = "ok"
       \/ /\ exit' = "fatal_write"
          /\ UNCHANGED outputFile
    /\ UNCHANGED <<latestVersion, majorVersion, versions, historyPage, headings,
                   histState, histReturn, site, releaseDates, tasks, visited, wg, mu,
                   allVersionData, accumulated, result, scrapeErr>>

(***************************************************************************)
(* Specifications.                                                         *)
(***************************************************************************)
\* digits as character sequences, for the texts below
Date(y, m, d) == Itoa(y) \o <<"-">> \o m \o <<"-">> \o d

ReleasedOn(date) == <<" ">> \o Released \o <<" ">> \o date \o <<")">>

\* "go1.2.0 (released 2025-02-11)"
HeadingA == VersionString(2) \o <<".", "0">> \o ReleasedOn(Date(2025, <<"0", "2">>, <<"1", "1">>))
\* "go1.2.1 (released 2025-03-04)": a patch release of the same major-minor
HeadingB == VersionString(2) \o <<".", "1">> \o ReleasedOn(Date(2025, <<"0", "3">>, <<"0", "4">>))
\* "go1.3 (released 2025-08-12)": no patch component
HeadingC == VersionString(3) \o ReleasedOn(Date(2025, <<"0", "8">>, <<"1", "2">>))
\* "Introduction": a heading that is no release
HeadingD == <<"I", "n", "t", "r", "o">>
\* "v go1.10.0 (released 2018-02-16)": text before the version
HeadingE == <<"v", " ">> \o VersionString(10) \o <<".", "0">>
               \o ReleasedOn(Date(2018, <<"0", "2">>, <<"1", "6">>))

HeadingTexts == {HeadingA, HeadingB, HeadingC, HeadingD, HeadingE}

\* every page of at most n headings
RECURSIVE PagesUpTo(_)
PagesUpTo(n) ==
    IF n = 0 THEN {<<>>}
    ELSE LET shorter == PagesUpTo(n - 1)
         IN  shorter \cup {Append(p, h) : p \in shorter, h \in HeadingTexts}

\* the release-history pages of the pipeline: one without a release heading,
\* one listing two releases and a patch release
PipelinePages == {<<HeadingD>>, <<HeadingA, HeadingB, HeadingC>>}

InitLocals ==
    /\ latestVersion = <<>>
    /\ majorVersion = -1
    /\ versions = <<>>
    /\ headings = <<>>
    /\ histState = "idle"
    /\ histReturn = NotReturned
    /\ releaseDates = EmptyMap
    /\ tasks = <<>>
    /\ visited = {}
    /\ wg = 0
    /\ mu = 0
    /\ allVersionData = <<>>
    /\ accumulated = <<>>
    /\ result = <<>>
    /\ scrapeErr = "unset"
    /\ outputFile = "absent"
    /\ exit = "running"

\* main starts
Init ==
    /\ pc = "getLatest"
    /\ historyPage \in PipelinePages
    /\ site = Pages
    /\ InitLocals

Fetches ==
    \E i \in 1..Len(tasks) :
        \/ StartFetch(i)
        \/ FetchFail(i)
        \/ FetchOK(i)
        \/ Lock(i)
        \/ AppendData(i)
        \/ Unlock(i)
        \/ Done(i)

Next ==
    \/ GetLatestGoVersion
    \/ ExtractMajorVersion
    \/ GenerateVersionStrings
    \/ HistoryVisit
    \/ OnHeading
    \/ HistoryReturn
    \/ Dispatch
    \/ LoopExit
    \/ Fetches
    \/ Wait
    \/ SortAndReturn
    \/ WriteOutput

Spec == Init /\ [][Next]_vars

\* every step that can be taken is eventually taken: goroutines that can run
\* do run, and every request on the wire is answered or fails
FairSpec == Spec /\ WF_vars(Next)

\* ScrapeReleaseHistory called on any page of at most MaxHeadings headings,
\* main having resolved go1.1 .. go1.MaxMinor
HistoryInit ==
    /\ pc = "history"
    /\ historyPage \in PagesUpTo(MaxHeadings)
    /\ site = Pages
    /\ latestVersion = TrimSpace(FirstLine(VersionBody(MaxMinor)))
    /\ majorVersion = MaxMinor
    /\ versions = generateVersionStrings(MaxMinor)
    /\ headings = <<>>
    /\ histState = "idle"
    /\ histReturn = NotReturned
    /\ releaseDates = EmptyMap
    /\ tasks = <<>>
    /\ visited = {}
    /\ wg = 0
    /\ mu = 0
    /\ allVersionData = <<>>
    /\ accumulated = <<>>
    /\ result = <<>>
    /\ scrapeErr = "unset"
    /\ outputFile = "absent"
    /\ exit = "running"

HistoryNext ==
    \/ HistoryVisit
    \/ OnHeading
    \/ HistoryReturn

HistorySpec == HistoryInit /\ [][HistoryNext]_vars

\* minor numbers of the identifiers handed to the sort: one and two digits
\* and three, so that numeric and string order differ
SortMinors == {1, 2, 9, 10, 11, 100}

\* a record as the callback builds it for a page without headings
BareRecord(n) == [Version |-> VersionString(n), ReleaseDate |-> <<>>, Changes |-> <<>>]

\* the collections of at most n records with distinct identifiers
RECURSIVE CollectionsUpTo(_)
CollectionsUpTo(n) ==
    IF n = 0 THEN {<<>>}
    ELSE LET shorter == CollectionsUpTo(n - 1)
         IN  shorter \cup
             {Append(c, BareRecord(m)) :
                 <<c, m>> \in {x \in shorter \X SortMinors :
                                 \A i \in 1..Len(x[1]) : x[1][i] # BareRecord(x[2])}}

\* ScrapeGoVersions at its sort, called with the identifiers of the collection,
\* every fetch having completed in the order of dispatch
SortStart(c) ==
        /\ pc = "sort"
        /\ historyPage = <<HeadingA>>
        /\ latestVersion = <<>>
        /\ majorVersion = -1
        /\ versions = [i \in 1..Len(c) |-> c[i].Version]
        /\ headings = <<>>
        /\ histState = "returned"
        /\ histReturn = HistoryResult(OnH2(EmptyMap, HeadingA))
        /\ site = Pages
        /\ releaseDates = OnH2(EmptyMap, HeadingA)
        /\ tasks = [i \in 1..Len(c) |->
                      [st |-> "done", v |-> c[i].Version, url |-> DocURL(c[i].Version),
                       page |-> NoPage, vd |-> c[i], old |-> SubSeq(c, 1, i - 1)]]
        /\ visited = {DocURL(c[i].Version) : i \in 1..Len(c)}
        /\ wg = 0
        /\ mu = 0
        /\ allVersionData = c
        /\ accumulated = c
        /\ result = <<>>
        /\ scrapeErr = "unset"
        /\ outputFile = "absent"
        /\ exit = "running"

SortInit == \E c \in CollectionsUpTo(MaxLen) : SortStart(c)

SortNext == SortAndReturn

SortSpec == SortInit /\ [][SortNext]_vars

\* "go1" and "go1compat": pages under /doc/ whose names have no minor to parse
Go1 == <<"g", "o", "1">>
Go1Compat == <<"g", "o", "1", "c", "o", "m", "p", "a", "t">>

\* identifiers ScrapeGoVersions may be called with, among them "go1" and
\* "go1compat", which name pages under /doc/ and have no minor to parse
TieIdentifiers == {Go1, Go1Compat, VersionString(1), VersionString(2), VersionString(10)}

\* a collection longer than the sort handles by insertion
TieLen == InsertionSortMax + 1

\* the collections of at most n records with distinct identifiers drawn from
\* TieIdentifiers
RECURSIVE TieCollectionsUpTo(_)
TieCollectionsUpTo(n) ==
    IF n = 0 THEN {<<>>}
    ELSE LET shorter == TieCollectionsUpTo(n - 1)
         IN  shorter \cup
             {Append(x[1], [Version |-> x[2], ReleaseDate |-> <<>>, Changes |-> <<>>]) :
                 x \in {y \in shorter \X TieIdentifiers :
                           \A i \in 1..Len(y[1]) : y[1][i].Version # y[2]}}

\* the collection of n records in which "go1" is at place a, "go1compat" at
\* place b and go1.1, go1.2, ... fill the other places in ascending order
TieCollection(n, a, b) ==
    [k \in 1..n |->
        [Version |-> IF k = a THEN Go1
                     ELSE IF k = b THEN Go1Compat
                     ELSE VersionString(Cardinality((1..k) \ {a, b})),
         ReleaseDate |-> <<>>,
         Changes |-> <<>>]]

\* ScrapeGoVersions at its sort, called with identifiers of which some have the
\* same minor value: a few, or more than the sort handles by insertion
TieInit ==
    \E c \in TieCollectionsUpTo(MaxLen)
               \cup {TieCollection(TieLen, p[1], p[2]) :
                        p \in {q \in (1..TieLen) \X (1..TieLen) : q[1] # q[2]}} :
        SortStart(c)

TieSpec == TieInit /\ [][SortNext]_vars

\* the h2 elements of the documentation pages: one followed by a paragraph,
\* one followed by another element, one that is the last child of its parent
H2Elements ==
    {[text |-> "Introduction", next |-> "p", nextText |-> "The latest release."],
     [text |-> "Tools", next |-> "h3", nextText |-> "Go command"],
     [text |-> "Library", next |-> "", nextText |-> ""]}

\* the sequences of at most n h2 elements
RECURSIVE H2sUpTo(_)
H2sUpTo(n) ==
    IF n = 0 THEN {<<>>}
    ELSE LET shorter == H2sUpTo(n - 1)
         IN  shorter \cup {Append(q, h) : q \in shorter, h \in H2Elements}

\* the documentation pages of at most n h2 elements, with an h1 and without
DocPagesUpTo(n) ==
    {[h1 |-> t, h2s |-> q] : t \in {"", "Release Notes"}, q \in H2sUpTo(n)}

\* the version lists ScrapeGoVersions is called with: one generated identifier,
\* the empty identifier (its URL ends in a slash), one identifier twice
RequestedVersions ==
    {<<VersionString(n)>> : n \in {1, 2, 10}}
        \cup {<< <<>> >>, <<VersionString(2), VersionString(2)>>}

\* ScrapeGoVersions is called with a version list and the index of a release
\* history that lists go1.2
ScrapeInit ==
    /\ pc = "scrape"
    /\ historyPage = <<HeadingA>>
    /\ site = DocPagesUpTo(MaxH2)
    /\ latestVersion = <<>>
    /\ majorVersion = -1
    /\ versions \in RequestedVersions
    /\ headings = <<>>
    /\ histState = "returned"
    /\ histReturn = HistoryResult(OnH2(EmptyMap, HeadingA))
    /\ releaseDates = OnH2(EmptyMap, HeadingA)
    /\ tasks = <<>>
    /\ visited = {}
    /\ wg = 0
    /\ mu = 0
    /\ allVersionData = <<>>
    /\ accumulated = <<>>
    /\ result = <<>>
    /\ scrapeErr = "unset"
    /\ outputFile = "absent"
    /\ exit = "running"

ScrapeNext ==
    \/ Dispatch
    \/ LoopExit
    \/ Fetches
    \/ Wait
    \/ SortAndReturn

ScrapeSpec == ScrapeInit /\ [][ScrapeNext]_vars

\* text that may stand before the first "go1.<digits>" of a version string:
\* nothing, other words, a "go1." without digits
TextBefore == {<<>>, <<"v", " ">>, Go1Dot \o <<"x", " ">>}

\* text that may follow the digit group: nothing, a patch number, a release
\* candidate tag, a later version
TextAfter == {<<>>, <<".", "0">>, <<"r", "c", "1">>, <<" ">> \o VersionString(7)}

\* the version string whose first "go1.<digits>" has the digits of n
VersionText(before, n, after) == before \o VersionString(n) \o after

\* a digit group no int holds
TwentyNines == [i \in 1..Len(MaxIntDigits) + 1 |-> "9"]

\* strings without the pattern: no "go1.", "go1." without a digit after it,
\* another major, another case, the empty string
Patternless ==
    {Garbage, Go1Dot, Go1Dot \o <<"x">>, <<"g", "o", "2", ".", "5">>,
     <<"G", "O", "1", ".", "5">>, <<>>}

\* strings with the pattern whose digit group is out of the range of int
OutOfRange == {Go1Dot \o TwentyNines, Go1Dot \o TwentyNines \o <<".", "0">>}

\* strings with the pattern whose digit group denotes an int
WithPattern ==
    {VersionText(b, n, a) : b \in TextBefore, n \in 0..MaxGen, a \in TextAfter}

\* main after getLatestGoVersion returned a version string
ResolveInit ==
    /\ pc = "extract"
    /\ historyPage \in PipelinePages
    /\ site = Pages
    /\ latestVersion \in WithPattern \cup Patternless \cup OutOfRange
    /\ majorVersion = -1
    /\ versions = <<>>
    /\ headings = <<>>
    /\ histState = "idle"
    /\ histReturn = NotReturned
    /\ releaseDates = EmptyMap
    /\ tasks = <<>>
    /\ visited = {}
    /\ wg = 0
    /\ mu = 0
    /\ allVersionData = <<>>
    /\ accumulated = <<>>
    /\ result = <<>>
    /\ scrapeErr = "unset"
    /\ outputFile = "absent"
    /\ exit = "running"

ResolveNext ==
    \/ ExtractMajorVersion
    \/ GenerateVersionStrings

\* extractMajorVersion and generateVersionStrings as main calls them
ResolveSpec == ResolveInit /\ [][ResolveNext]_vars

(***************************************************************************)
(* Properties.                                                             *)
(***************************************************************************)
TaskIds == 1..Len(tasks)

StatesOf(S) == {i \in TaskIds : tasks[i].st \in S}

\* a dispatched fetch that has neither completed its page callback nor been
\* reported as failed (nor been refused by Visit)
Pending == StatesOf({"queued", "inflight", "lockwait", "locked", "appended", "unlocked"})

Succeeded == StatesOf({"done"})

Failed == StatesOf({"failed"})

ScrapeReturned == scrapeErr # "unset"

\* C1: when some page fetches fail, ScrapeGoVersions still eventually returns
\* with a nil error (every dispatched fetch eventually succeeding or failing)
C1_PartialFailureReturns == (Failed # {}) ~> (ScrapeReturned /\ scrapeErr = "nil")

\* C1: the state the run is stuck in: every fetch has ended, one of them in
\* the error callback, and main is blocked in wg.Wait() with a counter that
\* nothing will decrement
C1_Stuck ==
    /\ pc = "wait"
    /\ Pending = {}
    /\ Failed # {}
    /\ Succeeded # {}
    /\ wg = Cardinality(Failed)

\* C2: ScrapeGoVersions never sorts, reads or returns the shared collection
\* while a fetch it dispatched is still in flight
C2_FanInBarrier ==
    (pc \in {"sort", "write"} \/ ScrapeReturned) => Pending = {}

\* C2: the barrier has been passed after at least two fetches ran
C2_Witness == pc = "sort" /\ Cardinality(Succeeded) >= 2

\* C3: when ScrapeGoVersions returns, its result holds exactly one record for
\* each requested version whose fetch succeeded, none for a version whose
\* fetch failed, none for a version that was not requested, and the error is nil
C3_ResultIsTheSucceeded ==
    ScrapeReturned =>
        /\ scrapeErr = "nil"
        /\ \A i \in Succeeded :
              Cardinality({k \in 1..Len(result) : result[k].Version = versions[i]}) = 1
        /\ \A i \in TaskIds \ Succeeded :
              \A k \in 1..Len(result) : result[k].Version # versions[i]
        /\ \A k \in 1..Len(result) :
              \E i \in 1..Len(versions) : result[k].Version = versions[i]

\* C3: ScrapeGoVersions has returned the records of three fetched versions
C3_Witness == ScrapeReturned /\ Len(result) = 3 /\ Cardinality(Succeeded) = 3

\* C4: no two callbacks are inside the append section at once and no append is
\* lost: the collection is as long as the callbacks that finished their append
C4_AppendExclusive ==
    /\ Cardinality(StatesOf({"locked", "appended"})) <= 1
    /\ Len(allVersionData) = Cardinality(StatesOf({"appended", "unlocked", "done"}))

\* C4: one callback is inside the append section while another waits for the
\* lock and a third has already appended
C4_Witness ==
    /\ StatesOf({"locked"}) # {}
    /\ StatesOf({"lockwait"}) # {}
    /\ Len(allVersionData) >= 1

\* C5: the returned sequence does not depend on the order in which the fetches
\* completed: it is the records of the fetched versions in descending order of
\* dispatch, that is of minor, whatever order they were appended in
C5_OrderIndependent ==
    ScrapeReturned =>
        /\ Len(result) = Cardinality(Succeeded)
        /\ \A a, b \in 1..Len(result) :
              a < b => \E i, j \in Succeeded :
                          /\ i > j
                          /\ result[a] = tasks[i].vd
                          /\ result[b] = tasks[j].vd

\* C5: a run in which the fetches completed neither in the requested order
\* nor in the returned one
C5_Witness ==
    /\ ScrapeReturned
    /\ Len(result) = 3
    /\ accumulated # result
    /\ \E a, b \in 1..Len(accumulated) :
          a < b /\ accumulated[a].Version = versions[3] /\ accumulated[b].Version = versions[1]
    /\ \E a, b \in 1..Len(accumulated) :
          a < b /\ accumulated[a].Version = versions[1] /\ accumulated[b].Version = versions[2]

\* C6: for records with distinct identifiers go1.<minor>, the returned
\* sequence is strictly descending by the number <minor>, not by the string
C6_DescendingByMinor ==
    ScrapeReturned =>
        \A a, b \in 1..Len(result) :
            a < b => \E m, n \in SortMinors :
                        /\ result[a].Version = VersionString(m)
                        /\ result[b].Version = VersionString(n)
                        /\ m > n

\* C6: go1.10 is returned right before go1.9 although it was appended after it
C6_Witness ==
    /\ ScrapeReturned
    /\ \E a \in 1..Len(result) - 1 :
          /\ result[a].Version = VersionString(10)
          /\ result[a + 1].Version = VersionString(9)
    /\ \E a, b \in 1..Len(accumulated) :
          /\ a < b
          /\ accumulated[a].Version = VersionString(9)
          /\ accumulated[b].Version = VersionString(10)

\* C7: at most 2 per-version page requests are in flight at the same time
C7_AtMostTwoInFlight == Cardinality(InFlight) <= 2

\* C7: two requests are in flight and a third waits for a slot
C7_Witness == Cardinality(InFlight) = 2 /\ StatesOf({"queued"}) # {}

FatalEarly == exit \in {"fatal_resolve", "fatal_parse", "fatal_history"}

\* C8: a fatal error in version resolution or in the release-history fetch
\* ends the run at once: no page fetch has been or is dispatched afterwards,
\* no output file is written, and the run stays ended
C8_FatalAborts ==
    /\ [](FatalEarly => (pc = "exit" /\ tasks = <<>> /\ outputFile = "absent"))
    /\ [][FatalEarly => UNCHANGED vars]_vars

\* C8: the run ended on a release-history page without release headings,
\* with three versions resolved and waiting to be scraped
C8_Witness == exit = "fatal_history" /\ historyPage # <<>> /\ Len(versions) = 3

\* C9: version resolution completes before the release-history fetch starts,
\* the release-history fetch completes before any page fetch is dispatched,
\* and the sort and the write happen only after the fan-out has joined
C9_PhaseOrder ==
    /\ histState # "idle" =>
          /\ latestVersion # <<>>
          /\ majorVersion >= 0
          /\ versions = generateVersionStrings(majorVersion)
    /\ tasks # <<>> => (histState = "returned" /\ headings = <<>>)
    /\ (pc \in {"sort", "write"} \/ ScrapeReturned \/ outputFile = "written")
          => (Len(tasks) = Len(versions) /\ wg = 0)
    /\ outputFile = "written" => ScrapeReturned

\* C9: the output was written after all phases ran on three versions
C9_Witness == outputFile = "written" /\ Len(tasks) = 3 /\ DOMAIN releaseDates # {}

\* headings of the page already handed to the callback
Processed == Len(historyPage) - Len(headings)

\* positions among the first n headings whose match has key k
MatchesOf(k, n) ==
    {i \in 1..n : FindStringSubmatch(historyPage[i]).ok
                  /\ FindStringSubmatch(historyPage[i]).version = k}

\* k is "go1." followed by digits only
IsMajorMinor(k) ==
    /\ HasPrefix(k, Go1Dot)
    /\ Len(k) > 4
    /\ \A i \in 5..Len(k) : IsDigit(k[i])

C10_FirstMatch ==
    histState = "visiting" =>
        /\ DOMAIN releaseDates =
              {FindStringSubmatch(historyPage[i]).version :
                  i \in {j \in 1..Processed : FindStringSubmatch(historyPage[j]).ok}}
        /\ \A k \in DOMAIN releaseDates :
              /\ IsMajorMinor(k)
              /\ LET first == CHOOSE i \in MatchesOf(k, Processed) :
                                 \A j \in MatchesOf(k, Processed) : i <= j
                 IN  releaseDates[k] = FindStringSubmatch(historyPage[first]).date
        /\ (historyPage = <<HeadingA, HeadingB>> /\ headings = <<>>)
              => releaseDates = [k \in {VersionString(2)} |->
                                   Date(2025, <<"0", "2">>, <<"1", "1">>)]

C10_KeyKept ==
    \A k \in DOMAIN releaseDates :
        k \in DOMAIN releaseDates' /\ releaseDates'[k] = releaseDates[k]

\* C10: the release-date index is first-match-wins: after any sequence of
\* headings each major-minor key maps to the date of the first heading that
\* matched it, a key once set is never changed by a later heading, and no key
\* holds a patch suffix
C10_FirstMatchWins == []C10_FirstMatch /\ [][C10_KeyKept]_vars

\* C10: a page was handled on which a patch release with another date follows
\* the first release of the same major-minor
C10_Witness ==
    /\ histState = "visiting"
    /\ headings = <<>>
    /\ \E i, j \in 1..Len(historyPage) :
          /\ i < j
          /\ FindStringSubmatch(historyPage[i]).ok
          /\ FindStringSubmatch(historyPage[j]).ok
          /\ FindStringSubmatch(historyPage[i]).version = FindStringSubmatch(historyPage[j]).version
          /\ FindStringSubmatch(historyPage[i]).date # FindStringSubmatch(historyPage[j]).date
          /\ releaseDates[FindStringSubmatch(historyPage[i]).version]
                = FindStringSubmatch(historyPage[i]).date

(***************************************************************************)
(* C11: what ScrapeReleaseHistory returns                                  *)
(***************************************************************************)

\* the headings of the page the regular expression matches
MatchingHeadings ==
    {i \in 1..Len(historyPage) : FindStringSubmatch(historyPage[i]).ok}

\* C11: whenever the page was fetched, ScrapeReleaseHistory returns an error
\* and no index if no heading of the page matches, and a non-empty index (the
\* one it built) with a nil error if at least one heading matches.
C11_ErrorIffNoMatch ==
    (histState = "returned" /\ histReturn.err # "visit") =>
        /\ MatchingHeadings = {} =>
              /\ histReturn.err = "notfound"
              /\ histReturn.isNil
              /\ exit = "fatal_history"
        /\ MatchingHeadings # {} =>
              /\ histReturn.err = "nil"
              /\ ~histReturn.isNil
              /\ DOMAIN histReturn.dates # {}
              /\ histReturn.dates = releaseDates
              /\ exit = "running"

\* C11: the function returned the error for a page of two headings that are
\* no releases
C11_Witness ==
    /\ histState = "returned"
    /\ Len(historyPage) = 2
    /\ MatchingHeadings = {}
    /\ histReturn.err = "notfound"

\* C11: the function returned an index for a page with a release heading after
\* a heading that is no release
C11_WitnessIndex ==
    /\ histState = "returned"
    /\ Len(historyPage) = 2
    /\ MatchingHeadings = {2}
    /\ histReturn.err = "nil"

(***************************************************************************)
(* C12: the release date of a record                                       *)
(***************************************************************************)

\* fetches whose callback has built its VersionData
Built == StatesOf({"lockwait", "locked", "appended", "unlocked", "done"})

\* C12: the record of every successfully processed version v carries dates[v]
\* as its release date when v is a key of the release-date index and the empty
\* string otherwise, and a version without a date is in the result all the same.
C12_DateMergedOrEmpty ==
    /\ \A i \in Built :
          /\ tasks[i].vd.Version = tasks[i].v
          /\ tasks[i].v \in DOMAIN releaseDates =>
                tasks[i].vd.ReleaseDate = releaseDates[tasks[i].v]
          /\ tasks[i].v \notin DOMAIN releaseDates =>
                tasks[i].vd.ReleaseDate = <<>>
    /\ ScrapeReturned =>
          \A i \in Succeeded : \E k \in 1..Len(result) : result[k] = tasks[i].vd

\* C12: the run returned a dated record (go1.2) and an undated one (go1.1,
\* which the release history does not list)
C12_Witness ==
    /\ ScrapeReturned
    /\ DOMAIN releaseDates # {}
    /\ \E a, b \in 1..Len(result) :
          /\ result[a].Version \in DOMAIN releaseDates
          /\ result[a].ReleaseDate = releaseDates[result[a].Version]
          /\ result[a].ReleaseDate # <<>>
          /\ result[b].Version \notin DOMAIN releaseDates
          /\ result[b].ReleaseDate = <<>>

(***************************************************************************)
(* C13: stability of the sort                                              *)
(***************************************************************************)

\* the place of the record with identifier v in the sequence s
PositionOf(s, v) == CHOOSE k \in 1..Len(s) : s[k].Version = v

\* pairs of places of the collection whose identifiers have the same minor
Ties ==
    {p \in (1..Len(accumulated)) \X (1..Len(accumulated)) :
        /\ p[1] < p[2]
        /\ parseVersionMinor(accumulated[p[1]].Version)
             = parseVersionMinor(accumulated[p[2]].Version)}

\* C13: the sort is stable: records whose identifiers have the same numeric
\* minor value keep in the output the relative order they had in the collection
\* before the sort.
C13_Stable ==
    ScrapeReturned =>
        \A p \in Ties :
            PositionOf(result, accumulated[p[1]].Version)
                < PositionOf(result, accumulated[p[2]].Version)

\* C13: 13 records were accumulated with "go1" first and "go1compat" seventh,
\* and the sort returned "go1compat" before "go1"
C13_TieReordered ==
    /\ ScrapeReturned
    /\ Len(accumulated) = TieLen
    /\ accumulated[1].Version = Go1
    /\ accumulated[7].Version = Go1Compat
    /\ PositionOf(result, Go1Compat) < PositionOf(result, Go1)

(***************************************************************************)
(* C14, C15: the change categories of a page                               *)
(***************************************************************************)

\* the description the h2 element h is to get
DescriptionOf(h) == IF h.next = "p" THEN h.nextText ELSE ""

\* the entries of ch from place o + 1 on are those of the h2 elements of the
\* page p, one each, in document order
H2EntriesFrom(ch, o, p) ==
    /\ Len(ch) = o + Len(p.h2s)
    /\ \A k \in 1..Len(p.h2s) :
          /\ ch[o + k].Category = p.h2s[k].text
          /\ ch[o + k].Description = DescriptionOf(p.h2s[k])

\* the page p has an h1 and two h2 of which only the first is followed by a
\* paragraph
OneH1TwoH2(p) ==
    /\ p.h1 # ""
    /\ Len(p.h2s) = 2
    /\ p.h2s[1].next = "p"
    /\ p.h2s[2].next # "p"

\* C14 as stated: for every page the Overview entry (description = h1 text)
\* comes first, then exactly one entry per h2 in order of appearance, whose
\* description is the text of the next sibling if that is a paragraph and is
\* empty otherwise.
C14_OverviewThenH2s ==
    \A i \in Built :
        /\ tasks[i].vd.Changes # <<>>
        /\ tasks[i].vd.Changes[1] = [Category |-> "Overview", Description |-> tasks[i].page.h1]
        /\ H2EntriesFrom(tasks[i].vd.Changes, 1, tasks[i].page)

\* C14: for every page whose h1 text is not empty the change categories are in
\* document order: the Overview entry (description = h1 text) first, then
\* exactly one entry per h2 in order of appearance, whose description is the
\* text of the next sibling if that is a paragraph and is empty otherwise; for a
\* page without h1 text they are the h2 entries alone. A page with one h1 and
\* two h2 of which only the first is followed by a paragraph yields 3 entries.
C14_DocumentOrder ==
    \A i \in Built :
        /\ tasks[i].page.h1 # "" =>
              /\ tasks[i].vd.Changes # <<>>
              /\ tasks[i].vd.Changes[1] =
                    [Category |-> "Overview", Description |-> tasks[i].page.h1]
              /\ H2EntriesFrom(tasks[i].vd.Changes, 1, tasks[i].page)
        /\ tasks[i].page.h1 = "" =>
              H2EntriesFrom(tasks[i].vd.Changes, 0, tasks[i].page)
        /\ OneH1TwoH2(tasks[i].page) =>
              /\ Len(tasks[i].vd.Changes) = 3
              /\ tasks[i].vd.Changes[2].Description # ""
              /\ tasks[i].vd.Changes[3].Description = ""

\* C14: the record of a page with one h1 and two h2, the first followed by a
\* paragraph and the second by another element, was built
C14_Witness ==
    \E i \in Built :
        /\ OneH1TwoH2(tasks[i].page)
        /\ tasks[i].page.h2s[2].next = "h3"
        /\ Len(tasks[i].vd.Changes) = 3

\* C15 as stated: the changes of every VersionData begin with an Overview
\* category whose description is the h1 text, also for a page with no h1 or an
\* empty one.
C15_AlwaysOverview ==
    \A i \in Built :
        /\ tasks[i].vd.Changes # <<>>
        /\ tasks[i].vd.Changes[1].Category = "Overview"
        /\ tasks[i].vd.Changes[1].Description = tasks[i].page.h1

\* C15: the changes of a VersionData begin with a synthetic Overview category
\* whose description is the page's h1 text exactly when that text is not empty;
\* for a page with no h1 or an empty one no Overview category is made.
C15_OverviewIffH1 ==
    \A i \in Built :
        IF tasks[i].page.h1 # ""
        THEN /\ tasks[i].vd.Changes # <<>>
             /\ tasks[i].vd.Changes[1].Category = "Overview"
             /\ tasks[i].vd.Changes[1].Description = tasks[i].page.h1
        ELSE \A k \in 1..Len(tasks[i].vd.Changes) :
                tasks[i].vd.Changes[k].Category # "Overview"

\* C15: the record of a page without h1 text and with h2 elements was built,
\* and it has no Overview category
C15_Witness ==
    \E i \in Built :
        /\ tasks[i].page.h1 = ""
        /\ tasks[i].page.h2s # <<>>
        /\ tasks[i].vd.Changes[1].Category # "Overview"

(***************************************************************************)
(* C18: the URL built for a version and the version read back from it      *)
(***************************************************************************)

\* fetches whose page callback has run extractVersionFromURL
CallbackRan == Built \cup StatesOf({"skipped"})

\* v is an identifier generateVersionStrings produces: "go1." and the decimal
\* digits of a number from 1 on
IsGenerated(v) ==
    /\ IsMajorMinor(v)
    /\ v[5] # "0"

\* C18: for every identifier v that generateVersionStrings produces,
\* extractVersionFromURL applied to the documentation URL built for v returns
\* v, so the record's version equals the requested version; from a URL that
\* ends in a slash it returns the empty string (and the callback builds no
\* record).
C18_URLRoundTrip ==
    \A i \in CallbackRan :
        /\ IsGenerated(tasks[i].v) =>
              /\ tasks[i].url = DocPrefix \o tasks[i].v
              /\ extractVersionFromURL(tasks[i].url) = tasks[i].v
              /\ tasks[i].st # "skipped"
              /\ tasks[i].vd.Version = tasks[i].v
        /\ tasks[i].url[Len(tasks[i].url)] = "/" =>
              /\ extractVersionFromURL(tasks[i].url) = <<>>
              /\ tasks[i].st = "skipped"
              /\ tasks[i].vd = NoData

\* C18: the record for go1.10 was built from the page at its URL
C18_Witness ==
    \E i \in Built :
        /\ tasks[i].v = VersionString(10)
        /\ tasks[i].vd.Version = VersionString(10)

\* C18: the callback ran for a URL that ends in a slash and built nothing
C18_WitnessSlash ==
    \E i \in StatesOf({"skipped"}) : tasks[i].url = DocPrefix

(***************************************************************************)
(* C16, C17: extractMajorVersion and generateVersionStrings                *)
(***************************************************************************)

\* generateVersionStrings has returned
Generated == pc = "history"

\* the text of v after "go1."
MinorText(v) == SubSeq(v, 5, Len(v))

\* "go1.1" .. "go1.5" written out
FirstFive ==
    <<<<"g", "o", "1", ".", "1">>, <<"g", "o", "1", ".", "2">>,
      <<"g", "o", "1", ".", "3">>, <<"g", "o", "1", ".", "4">>,
      <<"g", "o", "1", ".", "5">>>>

\* C16: generateVersionStrings(N) returns exactly go1.1, go1.2, ..., go1.N:
\* N strings, the i-th being "go1." and the decimal digits of i, hence
\* ascending, without duplicates and without gaps; for N = 0 the empty
\* sequence; for N = 5 go1.1 .. go1.5.
C16_ClosedRange ==
    Generated =>
        /\ Len(versions) = majorVersion
        /\ \A i \in 1..Len(versions) :
              /\ HasPrefix(versions[i], Go1Dot)
              /\ MinorText(versions[i]) # <<>>
              /\ MinorText(versions[i])[1] \notin {"0", "+", "-"}
              /\ Atoi(MinorText(versions[i])) = [ok |-> TRUE, val |-> i]
        /\ \A i, j \in 1..Len(versions) : i # j => versions[i] # versions[j]
        /\ majorVersion = 0 => versions = <<>>
        /\ majorVersion = 5 => versions = FirstFive

\* C16: the strings for a two-digit N were generated
C16_Witness ==
    /\ Generated
    /\ majorVersion = MaxGen
    /\ Len(versions) = MaxGen

\* C16: the empty sequence was generated for N = 0
C16_WitnessZero == Generated /\ majorVersion = 0 /\ versions = <<>>

\* extractMajorVersion has returned
Extracted == pc # "extract"

\* "go1.24.0"
Go1_24_0 == <<"g", "o", "1", ".", "2", "4", ".", "0">>

\* C17 as stated: extractMajorVersion returns the value of the digit group of
\* the first go1.<digits> occurrence for every string that contains the
\* pattern and an error, with no number, for every string that does not.
C17_ValueForEveryMatch ==
    Extracted =>
        /\ \A b \in TextBefore, n \in 0..MaxGen, a \in TextAfter :
              latestVersion = VersionText(b, n, a) =>
                  majorVersion = n /\ exit = "running"
        /\ latestVersion \in OutOfRange => exit = "running"
        /\ latestVersion \in Patternless =>
              majorVersion = -1 /\ exit = "fatal_parse"

\* C17: extractMajorVersion returns the value of the digit group of the first
\* go1.<digits> occurrence for every string that contains the pattern with a
\* digit group in the range of int ("go1.24.0" gives 24), and an error, with
\* no number, for every string that does not contain the pattern ("garbage")
\* or whose digit group is out of that range.
C17_ValueOrError ==
    Extracted =>
        /\ \A b \in TextBefore, n \in 0..MaxGen, a \in TextAfter :
              latestVersion = VersionText(b, n, a) =>
                  majorVersion = n /\ exit = "running"
        /\ latestVersion = Go1_24_0 => majorVersion = 24
        /\ latestVersion \in Patternless \cup OutOfRange =>
              majorVersion = -1 /\ exit = "fatal_parse"

\* C17: the number was taken from the first of two occurrences of the pattern,
\* after a "go1." without digits
C17_Witness ==
    /\ Extracted
    /\ latestVersion = VersionText(Go1Dot \o <<"x", " ">>, MaxGen, <<" ">> \o VersionString(7))
    /\ majorVersion = MaxGen

\* C17: a string with an out-of-range digit group was refused
C17_WitnessRange == Extracted /\ latestVersion \in OutOfRange /\ exit = "fatal_parse"

(***************************************************************************)
(* C19, C20: the sort as a function of the collection                      *)
(***************************************************************************)

\* how often the record r occurs in the sequence s
Occurrences(s, r) == Cardinality({k \in 1..Len(s) : s[k] = r})

\* C19: sorting only reorders the collection: the sorted output is a
\* permutation of the collection accumulated during fan-out, with the same
\* number of records and every VersionData (version, release date, changes)
\* as it was.
C19_OnlyReorders ==
    ScrapeReturned =>
        /\ Len(result) = Len(accumulated)
        /\ result \in Orderings(accumulated)
        /\ \A k \in 1..Len(accumulated) :
              Occurrences(result, accumulated[k]) = Occurrences(accumulated, accumulated[k])
        /\ \A i \in Succeeded : Occurrences(result, tasks[i].vd) = 1

\* C19: three records with release dates and changes were accumulated in an
\* order the sort had to change
C19_Witness ==
    /\ ScrapeReturned
    /\ Len(result) = 3
    /\ result # accumulated
    /\ \E k \in 1..Len(result) :
          result[k].ReleaseDate # <<>> /\ result[k].Changes # <<>>

\* C20: the sort is idempotent: for a collection of records with distinct
\* identifiers, sorting the sorted collection again yields the same sequence.
C20_Idempotent ==
    ScrapeReturned => SortFunc(result) = {result}

\* C20: a collection of three records was sorted into another order, which a
\* second sort has to leave alone
C20_Witness ==
    /\ ScrapeReturned
    /\ Len(result) = MaxLen
    /\ result # accumulated
    /\ result[1].Version = VersionString(100)

(***************************************************************************)
(* C21: the wait group's counter                                           *)
(***************************************************************************)

\* dispatched fetches that have finished on some outcome: the page callback
\* completed, the page callback returned early for want of a version, the
\* request was reported to the error callback, Visit refused the request
Finished == StatesOf({"done", "skipped", "failed", "rejected"})

\* C21: in every reachable state of ScrapeGoVersions the wait group's counter
\* equals the number of dispatched fetches that have not yet finished, a fetch
\* finishing on any outcome (callback completed, callback returning early,
\* error callback, Visit refusing the request); so every dispatched fetch
\* decrements the counter exactly once.
C21_CounterIsUnfinished == wg = Cardinality(TaskIds \ Finished)

\* what the counter does equal: the dispatched fetches whose callback has not
\* reached its last statement
C21_CounterIsNotDone == wg = Cardinality(TaskIds \ StatesOf({"done"}))

\* C21: every dispatched fetch has finished, one of them otherwise than by a
\* completed callback, and the counter is not zero
C21_CounterLeftOver ==
    /\ pc = "wait"
    /\ TaskIds # {}
    /\ Finished = TaskIds
    /\ StatesOf({"skipped", "failed", "rejected"}) # {}
    /\ wg > 0

\* C21: a request that Visit refused left its count in the wait group while
\* the first request for the same URL completed its callback
C21_RejectedKeepsCount ==
    /\ StatesOf({"rejected"}) # {}
    /\ StatesOf({"done"}) # {}
    /\ Finished = TaskIds
    /\ wg = 1

====
